---- MODULE Spec2Model ----
(***************************************************************************)
(* Model of the VNA acquisition driver (src/vna.py): segment model, sweep  *)
(* programming, the sample() cycle in marker and raw-sweep mode, the       *)
(* auto-tracking step and the deferred (@runlater) mutation requests.      *)
(*                                                                         *)
(* Frequencies are integers in kHz (the source uses floats in Hz; every    *)
(* value the model uses is a whole number of kHz, so the comparisons of    *)
(* track_window are evaluated exactly, cross-multiplied to stay integral). *)
(* A Python None is the empty sequence, a present value v is <<v>>.        *)
(***************************************************************************)
EXTENDS Integers, Sequences, FiniteSets, TLC

VARIABLES
    config,       \* the configuration handed to setup()
    model,        \* self.model, "" before setup
    cfg,          \* self.cfg without its segments (VNAConfig fields)
    segments,     \* self.cfg.segments
    last_sample,  \* self.last_sample
    queue,        \* pending @runlater calls
    pc,           \* position of the instrument loop / sample()
    data,         \* the Sample object being built by sample()
    log,          \* Instrument Link commands issued by the running operation
    result,       \* outcome of the running cycle
    dev,          \* what the instrument holds: segment table, trigger source
    ticks,        \* number of cycles started
    obs           \* observations of the run used to state the properties

vars == <<config, model, cfg, segments, last_sample, queue, pc, data, log,
          result, dev, ticks, obs>>

-----------------------------------------------------------------------------
(* Bounds of the model *)

MaxTicks == 2
MaxQueue == 1

-----------------------------------------------------------------------------
(* Python values *)

None == <<>>
Some(v) == <<v>>

Abs(x) == IF x < 0 THEN -x ELSE x

Range(s) == {s[i] : i \in DOMAIN s}

RECURSIVE Flatten(_)
Flatten(ss) == IF ss = <<>> THEN <<>> ELSE Head(ss) \o Flatten(Tail(ss))

-----------------------------------------------------------------------------
(* Segment and VNAConfig *)

\* Segment.__init__
Segment(name, f0, span, points, ifbw, power) ==
    [name |-> name, f0 |-> f0, f0_default |-> f0, span |-> span,
     span_default |-> span, points |-> points, ifbw |-> ifbw,
     power |-> power, enabled |-> TRUE]

\* mutant: the sort key is ignored, the segment goes to the front
InsertByF0_front(sorted, s) == <<s>> \o sorted

\* list.sort(key=lambda seg: seg.f0): stable, ascending by f0
RECURSIVE InsertByF0(_, _)
InsertByF0(sorted, s) ==
    IF sorted = <<>> THEN <<s>>
    ELSE IF s.f0 < Head(sorted).f0 THEN <<s>> \o sorted
    ELSE <<Head(sorted)>> \o InsertByF0(Tail(sorted), s)

RECURSIVE SortByF0(_)
SortByF0(segs) ==
    IF segs = <<>> THEN <<>>
    ELSE InsertByF0(SortByF0(SubSeq(segs, 1, Len(segs) - 1)), segs[Len(segs)])

\* the keys VNAConfig.__init__ reads of each entry of config["segments"]
SegmentFields == {"name", "f0", "span", "points", "ifbw", "power"}

\* lines 241-243 run without a KeyError
HasSegmentFields(c) ==
    \A i \in DOMAIN c.segments : SegmentFields \subseteq DOMAIN c.segments[i]

\* VNAConfig.__init__: the segment list
VNAConfigSegments(c) ==
    SortByF0([i \in DOMAIN c.segments |->
                Segment(c.segments[i].name, c.segments[i].f0, c.segments[i].span,
                        c.segments[i].points, c.segments[i].ifbw,
                        c.segments[i].power)])

\* VNAConfig.__init__: the other fields
VNAConfig(c) ==
    [track_freq |-> c.track_frequency,
     track_span |-> c.track_span,
     use_markers |-> c.use_markers,
     bw_factor |-> c.bandwidth_factor,
     bw_factor_override |-> None,
     track_enabled |-> TRUE]

\* mutant: the override is ignored
get_bw_factor_nominal(c) == c.bw_factor

\* VNAConfig.get_bw_factor
get_bw_factor(c) ==
    IF c.bw_factor_override /= None THEN c.bw_factor_override[1]
    ELSE c.bw_factor

-----------------------------------------------------------------------------
(* track_window(center, span, f0, bw, center_err=0.8, span_err=0.3, bw_factor) *)

\* mutant: the drift check uses the span tolerance 0.3 instead of 0.8
retrackf_span_err(center, span, f0, bw) ==
    20 * (2 * Abs(center - f0) + bw) > 6 * span

\* ferr = |center - f0| + bw/2 ; retrackf = ferr > span*0.8*0.5
retrackf(center, span, f0, bw) ==
    5 * (2 * Abs(center - f0) + bw) > 4 * span

\* mutant: only a window that is too narrow trips the span check
retracks_narrow(span, bw, bw_factor) ==
    10 * (bw * bw_factor) > 13 * span

\* (bw*bw_factor)/span > 1.3  or  span/(bw*bw_factor) > 1.3
retracks(span, bw, bw_factor) ==
    \/ 10 * (bw * bw_factor) > 13 * span
    \/ 10 * span > 13 * (bw * bw_factor)

track_window(center, span, f0, bw, bw_factor) ==
    <<retrackf(center, span, f0, bw), retracks(span, bw, bw_factor)>>

-----------------------------------------------------------------------------
(* Instrument Link commands.  A command is [cmd, data]: the message and the *)
(* numeric payload of write_ascii_values (empty for plain writes/queries).  *)
(* The N5232A list payload starts with the keyword SSTOP, kept in cmd.      *)

Cmd(c) == [cmd |-> c, data |-> <<>>]

IsN5232A(m) == m = "N5232A"

EnabledSegs(segs) == SelectSeq(segs, LAMBDA s : s.enabled)

\* the per-segment tuple of the N5232A encoding, line 180
TupleN5232A(s) == <<1, s.points, s.f0, s.span, s.ifbw, 0, s.power>>

\* the per-segment tuple of the E5071 encoding, line 192
TupleE5071(s) == <<s.f0, s.span, s.points, s.ifbw, s.power>>

\* mutant: the enabled test of lines 178/190 is missing
SegmentListData_all(segs, m) ==
    IF IsN5232A(m)
    THEN <<Len(segs)>> \o Flatten([i \in DOMAIN segs |-> TupleN5232A(segs[i])])
    ELSE <<5, 1, 1, 1, 0, 0, Len(segs)>>
         \o Flatten([i \in DOMAIN segs |-> TupleE5071(segs[i])])

\* the payload of the segment-list write
SegmentListData(segs, m) ==
    LET ena == EnabledSegs(segs)
        enacount == Len(ena)
    IN  IF IsN5232A(m)
        THEN <<enacount>> \o Flatten([i \in DOMAIN ena |-> TupleN5232A(ena[i])])
        ELSE <<5, 1, 1, 1, 0, 0, enacount>>
             \o Flatten([i \in DOMAIN ena |-> TupleE5071(ena[i])])

\* VNA.set_segments: the commands it issues, in order
set_segments(segs, m) ==
    IF IsN5232A(m)
    THEN << Cmd(":SENS1:SEGM:BWID:CONT ON"),
            Cmd(":SENS1:SEGM:POW:CONT ON"),
            [cmd |-> ":SENS1:SEGM:LIST SSTOP", data |-> SegmentListData(segs, m)] >>
    ELSE << [cmd |-> ":SENS1:SEGM:DATA", data |-> SegmentListData(segs, m)] >>

IsSegmentWrite(c) ==
    c.cmd \in {":SENS1:SEGM:LIST SSTOP", ":SENS1:SEGM:DATA"}

-----------------------------------------------------------------------------
(* The Instrument Link.  A command either completes or raises VisaIOError. *)
(* Issuing a command list gives the commands that went out (the one that   *)
(* raised included) and whether the whole list completed.                  *)

LinkOutcomes(cmds) ==
    {[issued |-> cmds, ok |-> TRUE]}
    \cup {[issued |-> SubSeq(cmds, 1, k), ok |-> FALSE] : k \in 1..Len(cmds)}

\* the commands of an outcome that completed
Completed(o) ==
    IF o.ok THEN o.issued ELSE SubSeq(o.issued, 1, Len(o.issued) - 1)

Tag(cmds, who) ==
    [i \in DOMAIN cmds |-> [cmd |-> cmds[i].cmd, data |-> cmds[i].data, by |-> who]]

\* the instrument: the segment table and the trigger source it holds
DevReset == [table |-> <<>>, trig |-> "INT"]

DevStep(d, c) ==
    IF IsSegmentWrite(c) THEN [d EXCEPT !.table = c.data]
    ELSE IF c.cmd = "*RST" THEN DevReset
    ELSE IF c.cmd = ":TRIG:SOUR MAN" THEN [d EXCEPT !.trig = "MAN"]
    ELSE IF c.cmd = ":TRIG:SOUR BUS" THEN [d EXCEPT !.trig = "BUS"]
    ELSE IF c.cmd = ":TRIG:SOUR INT" THEN [d EXCEPT !.trig = "INT"]
    ELSE d

RECURSIVE DevApply(_, _)
DevApply(d, cmds) ==
    IF cmds = <<>> THEN d ELSE DevApply(DevStep(d, Head(cmds)), Tail(cmds))

-----------------------------------------------------------------------------
(* Inputs: configurations, device identities, fit and marker results *)

\* the segment of a new configuration, uis/mainWindow.py newConfig
SegTM010 ==
    [name |-> "TM010", f0 |-> 2500700, span |-> 1000, points |-> 201,
     ifbw |-> 1000, power |-> 0]

\* a segment with the default geometry of Segment.__init__
SegTM110 ==
    [name |-> "TM110", f0 |-> 2495000, span |-> 50000, points |-> 51,
     ifbw |-> 1000, power |-> 0]

\* configurations: one segment under every tracking gate, and two segments
\* (listed out of f0 order) with frequency tracking
Configs ==
    [segments : {<<SegTM010>>}, track_frequency : BOOLEAN, track_span : BOOLEAN,
     use_markers : BOOLEAN, bandwidth_factor : {8}]
    \cup [segments : {<<SegTM010, SegTM110>>}, track_frequency : {TRUE},
          track_span : {FALSE}, use_markers : BOOLEAN, bandwidth_factor : {8}]

Models == {"E5071C", "N5232A"}

\* the (configuration, device) pairs setup() is run on
Setups ==
    {su \in Configs \X Models :
        Len(su[1].segments) > 1 => ~(su[1].use_markers /\ IsN5232A(su[2]))}

\* segment maps for setup() alone: every sequence of one to three segments
\* with distinct names, each at one of three centers
SegNames == {"TM010", "TM110", "TM210"}

Centers == {2495000, 2500700, 2510000}

SegAt(name, f0) ==
    [name |-> name, f0 |-> f0, span |-> 1000, points |-> 51, ifbw |-> 1000,
     power |-> 0]

SegmentMaps ==
    {m \in UNION {[1..n -> {SegAt(nm, f) : nm \in SegNames, f \in Centers}]
                    : n \in 1..3} :
        \A i, j \in DOMAIN m : i /= j => m[i].name /= m[j].name}

\* TM010 with one field not greater than 0
InvalidSegs ==
    {[SegTM010 EXCEPT !.f0 = 0], [SegTM010 EXCEPT !.span = 0],
     [SegTM010 EXCEPT !.points = 0], [SegTM010 EXCEPT !.ifbw = -1]}

\* TM010 without one of its fields
Without(s, k) == [f \in DOMAIN s \ {k} |-> s[f]]

MissingSegs == {Without(SegTM010, k) : k \in {"f0", "span", "points", "ifbw"}}

\* malformed maps: the bad segment alone, or after a good one
MalformedMaps ==
    {<<b>> : b \in InvalidSegs \cup MissingSegs}
    \cup {<<SegTM110, b>> : b \in InvalidSegs \cup MissingSegs}

AnyConfigs ==
    [segments : SegmentMaps \cup MalformedMaps, track_frequency : {TRUE},
     track_span : {FALSE}, use_markers : BOOLEAN, bandwidth_factor : {8}]

\* (center offset from the segment's default f0, bandwidth) of a resonance:
\* off center, narrow, and wide on the default center
Shapes == { <<300, 100>>, <<0, 5>>, <<0, 900>> }

\* insertion loss values the instrument / the fit reports
Losses == { -3, -4 }

\* q = f0/bw, kept as the exact fraction
Quotient(f0, bw) == [num |-> f0, den |-> bw]

\* lorentz_fit(f, a): (bw, f0, q, il), or RuntimeError/ValueError; on a
\* failure linregress(f, a) gives the sign of the slope
FitOutcomes(s) ==
    {[ok |-> TRUE, bw |-> sh[2], f0 |-> s.f0_default + sh[1],
      q |-> Quotient(s.f0_default + sh[1], sh[2]), il |-> -3, slope |-> 0]
        : sh \in Shapes}
    \cup {[ok |-> FALSE, bw |-> 0, f0 |-> 0, q |-> Quotient(0, 1), il |-> 0,
           slope |-> k] : k \in {-1, 1}}

\* get_marker_data(i): bw, f0, q, il as the instrument reports them
MarkerReads(s) ==
    {[bw |-> 100, f0 |-> s.f0_default, q |-> Quotient(s.f0_default, 100), il |-> l]
        : l \in Losses}
    \cup {[bw |-> 5, f0 |-> s.f0_default + 300,
           q |-> Quotient(s.f0_default + 300, 5), il |-> -3]}

\* Sample.__init__
Sample == [bw |-> <<>>, f0 |-> <<>>, q |-> <<>>, il |-> <<>>,
           freq |-> <<>>, ampl |-> <<>>]

-----------------------------------------------------------------------------
(* Observations kept for the properties; they influence no action *)

Obs0 ==
    [read     |-> None,   \* the (bw, f0, q) a marker read of this cycle gave
     accepted |-> None,   \* the last Sample returned in marker mode
     fits     |-> <<>>,   \* per segment: the fit outcome of this cycle
     trips    |-> <<>>,   \* per segment: the track_window result of this cycle
     factor   |-> None,   \* bandwidth factor the tracking step used
     override |-> None,   \* argument of the last bw-factor request applied
     applied  |-> "",     \* the request applied by the last drain step
     before   |-> <<>>,   \* the segments before that request was applied
     start    |-> <<>>,   \* the segments when sample() was entered
     prior    |-> None,   \* the last Sample returned before the latest setup
     since    |-> 0,      \* the number of cycles started before the latest setup
     tracked  |-> <<>>,   \* per segment: the fit and factor the last accepted
                          \* acquisition retracked it to under both gates, and
                          \* whether its window is intact since then
     was      |-> <<>>]   \* `tracked` when the tracking step of this cycle began

\* the windows of the segments in idx were moved by a nudge or a reset
Disturbed(tr, idx) ==
    [i \in DOMAIN tr |->
        IF tr[i] /= None /\ i \in idx
        THEN Some([tr[i][1] EXCEPT !.intact = FALSE]) ELSE tr[i]]

-----------------------------------------------------------------------------
(* Construction and setup *)

NoCfg == [track_freq |-> FALSE, track_span |-> FALSE, use_markers |-> FALSE,
          bw_factor |-> 0, bw_factor_override |-> None, track_enabled |-> FALSE]

NoConfig == [segments |-> <<>>, track_frequency |-> FALSE, track_span |-> FALSE,
             use_markers |-> FALSE, bandwidth_factor |-> 0]

\* VNA.__init__
Init ==
    /\ config = NoConfig
    /\ model = ""
    /\ cfg = NoCfg
    /\ segments = <<>>
    /\ last_sample = None
    /\ queue = <<>>
    /\ pc = "new"
    /\ data = Sample
    /\ log = <<>>
    /\ result = "pending"
    /\ dev = DevReset
    /\ ticks = 0
    /\ obs = Obs0

\* mutant: lines 31-32 are missing, the configuration's useMarkers stands
UseMarkers_config(c, idn) == c.use_markers

\* use_markers after lines 31-32
UseMarkers(c, idn) == IF IsN5232A(idn) THEN FALSE ELSE c.use_markers

\* the commands of setup(), lines 25-60
SetupCommands(c, idn) ==
    << Cmd("*RST"), Cmd("*IDN?"),
       Cmd(":CALC1:PAR1:DEF S21"), Cmd(":INIT1:CONT ON") >>
    \o (IF ~UseMarkers(c, idn)
        THEN IF IsN5232A(idn) THEN <<Cmd(":TRIG:SOUR MAN")>>
                              ELSE <<Cmd(":TRIG:SOUR BUS")>>
        ELSE <<>>)
    \o << Cmd(":SENS1:SWE:TYPE SEGM"), Cmd(":SENS1:SWE:DELAY 0.001"),
          Cmd(":SENS1:SWE:GEN STEP") >>
    \o set_segments(VNAConfigSegments(c), idn)
    \o << Cmd(":DISP:WIND1:TRAC1:Y:AUTO") >>
    \o (IF UseMarkers(c, idn)
        THEN << Cmd(":CALC1:MARK:BWID ON"), Cmd(":CALC1:MARK:FUNC:MULT:TYPE PEAK"),
                Cmd(":CALC1:MARK:FUNC:EXEC"), Cmd(":CALC1:MARK:FUNC:MULT:TRAC ON") >>
        ELSE <<>>)

\* mutant: line 62 is missing, setup() keeps the staleness cache
setup_last_sample_kept(last) == last

\* line 62: self.last_sample = None
setup_last_sample(last) == None

\* VNA.setup(config) on a device answering *IDN? with model idn
setup(c, idn) ==
    /\ config' = c
    /\ IF ~HasSegmentFields(c)
       THEN \* line 23 raises KeyError: self.cfg is not assigned
            /\ pc' = "failed"
            /\ result' = "Raised"
            /\ log' = <<>>
            /\ UNCHANGED <<segments, dev, model, cfg, last_sample>>
       ELSE \E o \in LinkOutcomes(SetupCommands(c, idn)) :
            /\ segments' = VNAConfigSegments(c)
            /\ log' = Tag(o.issued, "setup")
            /\ dev' = DevApply(dev, Completed(o))
            \* self.model is assigned once the *IDN? query has answered
            /\ model' = IF Len(Completed(o)) >= 2 THEN idn ELSE model
            /\ cfg' = IF Len(Completed(o)) >= 2
                      THEN [VNAConfig(c) EXCEPT !.use_markers = UseMarkers(c, idn)]
                      ELSE VNAConfig(c)
            /\ last_sample' = IF o.ok THEN setup_last_sample(last_sample)
                               ELSE last_sample
            /\ pc' = IF o.ok THEN "idle" ELSE "failed"
            /\ result' = IF o.ok THEN "pending" ELSE "Raised"
    /\ obs' = [Obs0 EXCEPT !.prior = obs.accepted, !.since = ticks]
    /\ UNCHANGED <<queue, data, ticks>>

\* the first setup() of the session
Setup == pc = "new" /\ \E su \in Setups : setup(su[1], su[2])

\* setup() runs again between two cycles, on the same configuration and device
Resetup ==
    /\ pc = "idle"
    /\ ticks > obs.since
    /\ ticks < MaxTicks
    /\ setup(config, model)

\* setup() on any segment map: up to three segments in any input order, with
\* equal centers too, and maps with a missing or an invalid field
SetupAny == pc = "new" /\ \E c \in AnyConfigs, idn \in Models : setup(c, idn)

SetupSpec == Init /\ [][SetupAny]_vars

-----------------------------------------------------------------------------
(* Deferred mutation requests.  The @runlater decorator queues the call;   *)
(* the instrument loop runs the queued calls at the start of a cycle.      *)

Call(op, segment, enabled, factor) ==
    [op |-> op, segment |-> segment, enabled |-> enabled, factor |-> factor]

\* @runlater: the call is queued, nothing else happens.  A request arrives
\* between two cycles or in the middle of sample(), after the Link commands
\* of the acquisition and before those of the tracking step.
runlater(call) ==
    /\ pc \in {"idle", "track"}
    /\ Len(queue) < MaxQueue
    /\ ticks < MaxTicks
    /\ queue' = Append(queue, call)
    /\ UNCHANGED <<config, model, cfg, segments, last_sample, pc, data, log,
                   result, dev, ticks, obs>>

set_segment_enabled(segment, enabled) ==
    runlater(Call("set_segment_enabled", segment, enabled, None))

set_bw_factor_override(factor) ==
    runlater(Call("set_bw_factor_override", 0, FALSE, factor))

\* mutant: the method runs at once, as without its @runlater decorator
set_tracking_override_now(enabled) ==
    /\ pc \in {"idle", "track"}
    /\ cfg' = [cfg EXCEPT !.track_enabled = enabled]
    /\ UNCHANGED <<config, model, segments, last_sample, queue, pc, data, log,
                   result, dev, ticks, obs>>

set_tracking_override(enabled) ==
    runlater(Call("set_tracking_override", 0, enabled, None))

reset_tracking ==
    runlater(Call("reset_tracking", 0, FALSE, None))

\* values a bandwidth-factor request carries: a factor, or None to clear
OverrideArgs == { None, Some(2) }

\* the user interface toggles a segment and the tracking gate

Request ==
    \/ \E i \in DOMAIN segments : set_segment_enabled(i, ~segments[i].enabled)
    \/ \E f \in OverrideArgs : set_bw_factor_override(f)
    \/ set_tracking_override(~cfg.track_enabled)
    \/ reset_tracking

\* the bodies of the decorated methods: the new segments, the new cfg and
\* the commands they issue
set_segment_enabled_body(segs, segment, enabled) ==
    [segs EXCEPT ![segment].enabled = enabled]

set_bw_factor_override_body(c, factor) ==
    [c EXCEPT !.bw_factor_override = factor]

set_tracking_override_body(c, enabled) ==
    [c EXCEPT !.track_enabled = enabled]

\* mutant: line 235 is missing, the span is not restored
reset_tracking_body_f0(segs) ==
    [i \in DOMAIN segs |-> [segs[i] EXCEPT !.f0 = segs[i].f0_default]]

reset_tracking_body(segs) ==
    [i \in DOMAIN segs |->
        [segs[i] EXCEPT !.f0 = segs[i].f0_default, !.span = segs[i].span_default]]

\* a cycle starts: the instrument loop is about to run the queued calls
Tick ==
    /\ pc = "idle"
    /\ ticks < MaxTicks
    /\ pc' = "drain"
    /\ ticks' = ticks + 1
    /\ log' = <<>>
    /\ UNCHANGED <<config, model, cfg, segments, last_sample, queue, data,
                   result, dev, obs>>

\* the loop runs the oldest queued call
ApplyNext ==
    /\ pc = "drain"
    /\ queue /= <<>>
    /\ LET call == Head(queue)
           segs == CASE call.op = "set_segment_enabled" ->
                            set_segment_enabled_body(segments, call.segment, call.enabled)
                     [] call.op = "reset_tracking" -> reset_tracking_body(segments)
                     [] OTHER -> segments
           cmds == IF call.op \in {"set_segment_enabled", "reset_tracking"}
                   THEN set_segments(segs, model) ELSE <<>>
       IN  /\ segments' = segs
           /\ cfg' = CASE call.op = "set_bw_factor_override" ->
                            set_bw_factor_override_body(cfg, call.factor)
                       [] call.op = "set_tracking_override" ->
                            set_tracking_override_body(cfg, call.enabled)
                       [] OTHER -> cfg
           /\ log' = log \o Tag(cmds, "runlater")
           /\ dev' = DevApply(dev, cmds)
           /\ obs' = [obs EXCEPT !.applied = call.op,
                                 !.before = segments,
                                 !.tracked = IF call.op = "reset_tracking"
                                             THEN Disturbed(@, DOMAIN @) ELSE @,
                                 !.override = IF call.op = "set_bw_factor_override"
                                              THEN call.factor ELSE @]
    /\ queue' = Tail(queue)
    /\ UNCHANGED <<config, model, last_sample, pc, data, result, ticks>>

-----------------------------------------------------------------------------
(* VNA.sample *)

TriggerCommands(m) ==
    IF IsN5232A(m) THEN <<Cmd(":INIT:IMM"), Cmd("*OPC?")>>
    ELSE <<Cmd(":TRIG:SING"), Cmd("*OPC?")>>

\* mutant: the test of line 65 is missing, sample() triggers in both modes
SampleTrigger_always(c, m) == TriggerCommands(m)

\* lines 65-70: the commands sample() starts with
SampleTrigger(c, m) == IF ~c.use_markers THEN TriggerCommands(m) ELSE <<>>

\* lines 65-70: trigger and wait, in raw-sweep mode only
sample_trigger ==
    /\ pc = "drain"
    /\ queue = <<>>
    /\ LET cmds == SampleTrigger(cfg, model)
       IN  \E o \in LinkOutcomes(cmds) :
            /\ log' = log \o Tag(o.issued, "sample")
            /\ dev' = DevApply(dev, Completed(o))
            /\ pc' = IF o.ok THEN "acquire" ELSE "done"
            /\ result' = IF o.ok THEN "pending" ELSE "Raised"
    /\ data' = Sample
    /\ obs' = [obs EXCEPT !.applied = "", !.before = <<>>, !.start = segments]
    /\ UNCHANGED <<config, model, cfg, segments, last_sample, queue, ticks>>

\* get_marker_data(marker)
MarkerQuery(marker) == [cmd |-> ":CALC1:MARK:BWID:DATA?", data |-> <<marker>>]

\* the Sample after the marker loop, lines 75-80
MarkerSample(reads) ==
    [bw |-> [i \in DOMAIN reads |-> Some(reads[i].bw)],
     f0 |-> [i \in DOMAIN reads |-> Some(reads[i].f0)],
     q  |-> [i \in DOMAIN reads |-> Some(reads[i].q)],
     il |-> [i \in DOMAIN reads |-> Some(reads[i].il)],
     freq |-> <<>>, ampl |-> <<>>]

\* arr = [data.bw, data.f0, data.q]
Arr(d) == <<d.bw, d.f0, d.q>>

\* mutant: the comparison of line 86 is inverted
IsStale_inverted(last, arr) == last /= None /\ last[1] /= arr

\* lines 85-87: the read repeats the last one kept
IsStale(last, arr) == last /= None /\ last[1] = arr

\* lines 73-88: the marker branch
sample_markers ==
    /\ pc = "acquire"
    /\ cfg.use_markers
    /\ LET n == Len(segments)
           queries == [i \in 1..n |-> MarkerQuery(i)]
       IN  \/ \E k \in 1..n :      \* the k-th query raises VisaIOError
                /\ log' = log \o Tag(SubSeq(queries, 1, k), "sample")
                /\ result' = "None"
                /\ pc' = "done"
                /\ UNCHANGED <<data, last_sample, obs>>
           \/ \E reads \in [1..n -> UNION {MarkerReads(segments[i]) : i \in 1..n}] :
                /\ \A i \in 1..n : reads[i] \in MarkerReads(segments[i])
                /\ log' = log \o Tag(queries, "sample")
                /\ data' = MarkerSample(reads)
                /\ obs' = [obs EXCEPT !.read = Some(Arr(data'))]
                /\ IF IsStale(last_sample, Arr(data'))
                   THEN /\ result' = "None"
                        /\ pc' = "done"
                        /\ UNCHANGED last_sample
                   ELSE /\ last_sample' = Some(Arr(data'))
                        /\ pc' = "track"
                        /\ UNCHANGED result
    /\ UNCHANGED <<config, model, cfg, segments, queue, dev, ticks>>

\* get_sweep_data, get_freq_data
SweepQueries(m) ==
    IF IsN5232A(m) THEN <<Cmd(":CALC1:DATA? SDAT"), Cmd(":CALC1:X?")>>
    ELSE <<Cmd(":CALC1:DATA:SDAT?"), Cmd(":SENS1:FREQ:DATA?")>>

\* the fit outcome recorded for a segment that is not fitted
NoFit == [ok |-> TRUE, bw |-> 0, f0 |-> 0, q |-> Quotient(0, 1), il |-> 0, slope |-> 0]

\* mutant: line 101 runs for disabled segments too
RECURSIVE SliceStart_all(_, _)
SliceStart_all(segs, i) ==
    IF i = 1 THEN 0 ELSE SliceStart_all(segs, i - 1) + segs[i - 1].points

\* `start` when the loop of line 97 reaches segment i
RECURSIVE SliceStart(_, _)
SliceStart(segs, i) ==
    IF i = 1 THEN 0
    ELSE SliceStart(segs, i - 1)
         + (IF segs[i - 1].enabled THEN segs[i - 1].points ELSE 0)

\* what the loop body appends to one list of the Sample for segment i
Slot(segs, fits, i, v) ==
    IF ~segs[i].enabled THEN <<None>>
    ELSE IF fits[i].ok THEN <<Some(v)>>
    ELSE <<>>

\* the Sample after the loop of lines 97-124
FitSample(segs, fits) ==
    LET slice(i) == <<SliceStart(segs, i), SliceStart(segs, i) + segs[i].points>>
    IN  [bw |-> Flatten([i \in DOMAIN segs |-> Slot(segs, fits, i, fits[i].bw)]),
         f0 |-> Flatten([i \in DOMAIN segs |-> Slot(segs, fits, i, fits[i].f0)]),
         q  |-> Flatten([i \in DOMAIN segs |-> Slot(segs, fits, i, fits[i].q)]),
         il |-> Flatten([i \in DOMAIN segs |-> Slot(segs, fits, i, fits[i].il)]),
         freq |-> Flatten([i \in DOMAIN segs |-> Slot(segs, fits, i, slice(i))]),
         ampl |-> Flatten([i \in DOMAIN segs |-> Slot(segs, fits, i, slice(i))])]

LostTrack(segs, fits) ==
    \E i \in DOMAIN segs : segs[i].enabled /\ ~fits[i].ok

\* mutant: the nudge goes against the slope
Nudge_inverted(seg, fit, c) ==
    IF seg.enabled /\ ~fit.ok /\ c.track_freq /\ c.track_enabled
    THEN IF fit.slope > 0 THEN [seg EXCEPT !.f0 = seg.f0 - seg.span]
                          ELSE [seg EXCEPT !.f0 = seg.f0 + seg.span]
    ELSE seg

\* lines 112-117: the re-acquisition nudge of one segment
Nudge(seg, fit, c) ==
    IF seg.enabled /\ ~fit.ok /\ c.track_freq /\ c.track_enabled
    THEN IF fit.slope > 0 THEN [seg EXCEPT !.f0 = seg.f0 + seg.span]
                          ELSE [seg EXCEPT !.f0 = seg.f0 - seg.span]
    ELSE seg

\* mutant: the list is sorted by f0 again after the loop
NudgedSegments_sorted(segs, fits, c) ==
    SortByF0([i \in DOMAIN segs |-> Nudge(segs[i], fits[i], c)])

\* lines 97-117: the segment list after the loop, each segment nudged in place
NudgedSegments(segs, fits, c) ==
    [i \in DOMAIN segs |-> Nudge(segs[i], fits[i], c)]

\* mutant: lines 127-128 are missing, the nudged sweep is not programmed
NudgeCommands_none(segs, c, m) == <<>>

\* lines 126-128: the sweep is programmed again after a lost track
NudgeCommands(segs, c, m) ==
    IF c.track_freq /\ c.track_enabled THEN set_segments(segs, m) ELSE <<>>

\* lines 90-129: the raw-sweep branch
sample_sweep ==
    /\ pc = "acquire"
    /\ ~cfg.use_markers
    /\ \E o \in LinkOutcomes(SweepQueries(model)) :
        IF ~o.ok
        THEN /\ log' = log \o Tag(o.issued, "sample")
             /\ result' = "Raised"
             /\ pc' = "done"
             /\ UNCHANGED <<segments, data, dev, obs>>
        ELSE \E fits \in [DOMAIN segments ->
                            UNION {FitOutcomes(segments[i]) : i \in DOMAIN segments}
                            \cup {NoFit}] :
             /\ \A i \in DOMAIN segments :
                    IF segments[i].enabled THEN fits[i] \in FitOutcomes(segments[i])
                    ELSE fits[i] = NoFit
             /\ data' = FitSample(segments, fits)
             /\ obs' = [obs EXCEPT
                          !.fits = fits,
                          !.tracked = Disturbed(@, {i \in DOMAIN segments :
                                        Nudge(segments[i], fits[i], cfg) /= segments[i]})]
             /\ segments' = NudgedSegments(segments, fits, cfg)
             /\ IF LostTrack(segments, fits)
                THEN LET cmds == NudgeCommands(segments', cfg, model)
                     IN  \E w \in LinkOutcomes(cmds) :
                            /\ log' = log \o Tag(o.issued \o w.issued, "sample")
                            /\ dev' = DevApply(dev, Completed(w))
                            /\ result' = IF w.ok THEN "None" ELSE "Raised"
                            /\ pc' = "done"
                ELSE /\ log' = log \o Tag(o.issued, "sample")
                     /\ pc' = "track"
                     /\ UNCHANGED <<result, dev>>
    /\ UNCHANGED <<config, model, cfg, last_sample, queue, ticks>>

-----------------------------------------------------------------------------
(* The tracking step, lines 131-158 *)

\* mutant: the tracking step ignores the master gate
Tracking_ungated(c) == c.track_freq \/ c.track_span

\* line 131: the tracking step runs
Tracking(c) == (c.track_freq \/ c.track_span) /\ c.track_enabled

\* line 138: the segment is retracked
Retrack(seg, f0, bw, c) ==
    LET tw == track_window(seg.f0, seg.span, f0, bw, get_bw_factor(c))
    IN  (tw[1] /\ c.track_freq) \/ (tw[2] /\ c.track_span)

\* mutant: line 143 forgets the bandwidth factor
Retracked_nofactor(seg, f0, bw, c) ==
    [seg EXCEPT !.f0 = IF c.track_freq THEN f0 ELSE @,
                !.span = IF c.track_span THEN bw ELSE @]

\* lines 140-143: the retracked segment
Retracked(seg, f0, bw, c) ==
    [seg EXCEPT !.f0 = IF c.track_freq THEN f0 ELSE @,
                !.span = IF c.track_span THEN bw * get_bw_factor(c) ELSE @]

\* lines 133-143 for one segment and its slots of the Sample
TrackSegment(seg, f0slot, bwslot, c) ==
    IF seg.enabled /\ Retrack(seg, f0slot[1], bwslot[1], c)
    THEN Retracked(seg, f0slot[1], bwslot[1], c)
    ELSE seg

\* mutant: line 156 is missing, the trigger source is not restored
ForcedTrigger_norestore(m) ==
    (IF IsN5232A(m) THEN <<Cmd(":TRIG:SOUR MAN"), Cmd(":INIT:IMM")>>
                    ELSE <<Cmd(":TRIG:SOUR BUS"), Cmd(":TRIG:SING")>>)
    \o <<Cmd("*OPC?")>>

\* lines 147-156: force a complete trigger, then back to internal
ForcedTrigger(m) ==
    (IF IsN5232A(m) THEN <<Cmd(":TRIG:SOUR MAN"), Cmd(":INIT:IMM")>>
                    ELSE <<Cmd(":TRIG:SOUR BUS"), Cmd(":TRIG:SING")>>)
    \o <<Cmd("*OPC?"), Cmd(":TRIG:SOUR INT")>>

\* mutant: line 145 is missing, the retracked sweep is not programmed
TrackCommands_nowrite(segs, retracked, c, m) ==
    IF retracked /\ c.use_markers THEN ForcedTrigger(m) ELSE <<>>

\* lines 144-156: what the tracking step sends once a segment was retracked
TrackCommands(segs, retracked, c, m) ==
    IF retracked
    THEN set_segments(segs, m) \o (IF c.use_markers THEN ForcedTrigger(m) ELSE <<>>)
    ELSE <<>>

sample_track ==
    /\ pc = "track"
    /\ LET segs == IF Tracking(cfg)
                   THEN [i \in DOMAIN segments |->
                            TrackSegment(segments[i], data.f0[i], data.bw[i], cfg)]
                   ELSE segments
           \* lines 132, 139: a check tripped under its gate
           retracked == /\ Tracking(cfg)
                        /\ \E i \in DOMAIN segments :
                                /\ segments[i].enabled
                                /\ Retrack(segments[i], data.f0[i][1], data.bw[i][1], cfg)
           cmds == TrackCommands(segs, retracked, cfg, model)
       IN  /\ segments' = segs
           /\ obs' = [obs EXCEPT
                        !.factor = IF Tracking(cfg) THEN Some(get_bw_factor(cfg)) ELSE None,
                        !.trips = IF Tracking(cfg)
                                  THEN [i \in DOMAIN segments |->
                                          IF segments[i].enabled
                                          THEN Some(track_window(segments[i].f0,
                                                     segments[i].span, data.f0[i][1],
                                                     data.bw[i][1], get_bw_factor(cfg)))
                                          ELSE None]
                                  ELSE <<>>,
                        !.was = obs.tracked,
                        !.tracked =
                            [i \in DOMAIN segments |->
                                IF /\ Tracking(cfg) /\ cfg.track_freq /\ cfg.track_span
                                   /\ segments[i].enabled
                                   /\ Retrack(segments[i], data.f0[i][1], data.bw[i][1], cfg)
                                THEN Some([f0 |-> data.f0[i][1], bw |-> data.bw[i][1],
                                           factor |-> get_bw_factor(cfg), intact |-> TRUE])
                                ELSE None]]
           /\ \E o \in LinkOutcomes(cmds) :
                /\ log' = log \o Tag(o.issued, "sample")
                /\ dev' = DevApply(dev, Completed(o))
                /\ result' = IF o.ok THEN "Sample" ELSE "Raised"
    /\ pc' = "done"
    /\ UNCHANGED <<config, model, cfg, last_sample, queue, data, ticks>>

\* the cycle's outcome goes to the caller; an exception ends the session
Return ==
    /\ pc = "done"
    /\ pc' = IF result = "Raised" THEN "failed" ELSE "idle"
    /\ obs' = [obs EXCEPT !.accepted = IF result = "Sample" /\ cfg.use_markers
                                       THEN Some(data) ELSE @,
                          !.read = None, !.fits = <<>>, !.trips = <<>>,
                          !.factor = None, !.start = <<>>, !.was = <<>>]
    /\ data' = Sample
    /\ log' = <<>>
    /\ result' = "pending"
    /\ UNCHANGED <<config, model, cfg, segments, last_sample, queue, dev, ticks>>

-----------------------------------------------------------------------------

Next ==
    \/ Setup
    \/ Request
    \/ Tick
    \/ ApplyNext
    \/ sample_trigger
    \/ sample_markers
    \/ sample_sweep
    \/ sample_track
    \/ Return

Spec == Init /\ [][Next]_vars

\* sessions in which setup() may run again between two cycles
NextSetupAgain ==
    \/ Next
    \/ Resetup

SetupAgainSpec == Init /\ [][NextSetupAgain]_vars

-----------------------------------------------------------------------------
(* Properties *)

EnabledFlags(segs) == [i \in DOMAIN segs |-> segs[i].enabled]

\* the commands sample() itself has issued in the running cycle
SampleCommands(l) == SelectSeq(l, LAMBDA c : c.by = "sample")

\* the commands a step has added to the log
NewCommands ==
    IF Len(log') > Len(log) THEN SubSeq(log', Len(log) + 1, Len(log')) ELSE <<>>

\* a step of setup(), which builds a new configuration
SetupStep == log = <<>> /\ log' /= <<>> /\ log'[1].by = "setup"

\* C1: issuing a deferred mutation request changes no segment or
\* configuration field and issues no Link command; a queued request is run
\* only at the start of a cycle, before sample() has issued any Link command
\* of that cycle, and outside setup() the fields the requests set change at
\* no other moment.
C1_DeferredMutation ==
    [][ /\ Len(queue') > Len(queue)
            => /\ segments' = segments
               /\ cfg' = cfg
               /\ last_sample' = last_sample
               /\ log' = log
               /\ dev' = dev
        /\ Len(queue') < Len(queue)
            => /\ pc = "drain" /\ pc' = "drain"
               /\ SampleCommands(log) = <<>>
               /\ SampleCommands(log') = <<>>
        /\ ( /\ ~SetupStep
             /\ \/ EnabledFlags(segments') /= EnabledFlags(segments)
                \/ cfg'.bw_factor_override /= cfg.bw_factor_override
                \/ cfg'.track_enabled /= cfg.track_enabled )
            => Len(queue') < Len(queue)
      ]_vars

\* a request is pending that was issued in the middle of a cycle
C1_Witness ==
    /\ pc = "track"
    /\ queue /= <<>>
    /\ SampleCommands(log) /= <<>>

\* C2: in marker mode a cycle whose (bw, f0, q) read equals that of the last
\* Sample returned since setup yields no result and keeps the reference,
\* whatever the insertion losses; any other read is not discarded and
\* becomes the reference.
C2_Staleness ==
    (cfg.use_markers /\ obs.read /= None /\ pc \in {"track", "done"})
        => IF obs.accepted /= None /\ obs.read[1] = Arr(obs.accepted[1])
           THEN /\ pc = "done"
                /\ result = "None"
                /\ last_sample = Some(Arr(obs.accepted[1]))
           ELSE /\ last_sample = obs.read
                /\ result /= "None"

\* a read is discarded as stale although its insertion losses are new
C2_Witness ==
    /\ cfg.use_markers
    /\ pc = "done"
    /\ result = "None"
    /\ obs.read /= None
    /\ obs.accepted /= None
    /\ obs.read[1] = Arr(obs.accepted[1])
    /\ data.il /= obs.accepted[1].il

\* C3: a transport error on any Link command of a cycle makes the cycle
\* yield no result instead of failing.
C3_TransportErrorYieldsNoResult ==
    pc = "done" => result /= "Raised"

\* the segment table a segment-list write carries, decoded by the positions
\* of the instrument's format
WriteCount(w) ==
    IF w.cmd = ":SENS1:SEGM:DATA" THEN w.data[7] ELSE w.data[1]

WriteTable(w) ==
    IF w.cmd = ":SENS1:SEGM:DATA"
    THEN [j \in 1..((Len(w.data) - 7) \div 5) |->
            [f0 |-> w.data[7 + 5 * (j - 1) + 1], span |-> w.data[7 + 5 * (j - 1) + 2],
             points |-> w.data[7 + 5 * (j - 1) + 3], ifbw |-> w.data[7 + 5 * (j - 1) + 4],
             power |-> w.data[7 + 5 * (j - 1) + 5]]]
    ELSE [j \in 1..((Len(w.data) - 1) \div 7) |->
            [f0 |-> w.data[1 + 7 * (j - 1) + 3], span |-> w.data[1 + 7 * (j - 1) + 4],
             points |-> w.data[1 + 7 * (j - 1) + 2], ifbw |-> w.data[1 + 7 * (j - 1) + 5],
             power |-> w.data[1 + 7 * (j - 1) + 7]]]

WriteWellFormed(w) ==
    IF w.cmd = ":SENS1:SEGM:DATA"
    THEN Len(w.data) = 7 + 5 * WriteCount(w)
    ELSE Len(w.data) = 1 + 7 * WriteCount(w)

\* the table the model's segments ask for: the enabled ones, in model order
RECURSIVE ModelTable(_)
ModelTable(segs) ==
    IF segs = <<>> THEN <<>>
    ELSE (IF Head(segs).enabled
          THEN << [f0 |-> Head(segs).f0, span |-> Head(segs).span,
                   points |-> Head(segs).points, ifbw |-> Head(segs).ifbw,
                   power |-> Head(segs).power] >>
          ELSE <<>>)
         \o ModelTable(Tail(segs))

NumDisabled(segs) == Cardinality({i \in DOMAIN segs : ~segs[i].enabled})

\* C4: every ProgramSweep issues one segment-list write; its count field is
\* N-k and its payload is exactly one tuple per enabled segment, in model
\* order, with the segment's current f0, span, points, ifbw and power.
C4_ProgramSweep ==
    [][ LET writes == SelectSeq(NewCommands, IsSegmentWrite)
        IN  /\ Len(writes) <= 1
            /\ \A k \in DOMAIN writes :
                /\ WriteCount(writes[k]) = Len(segments') - NumDisabled(segments')
                /\ WriteWellFormed(writes[k])
                /\ WriteTable(writes[k]) = ModelTable(segments')
            /\ ( /\ Len(queue') < Len(queue)
                 /\ Head(queue).op \in {"set_segment_enabled", "reset_tracking"} )
                => Len(writes) = 1
            /\ (segments' /= segments /\ result' /= "Raised")
                => Len(writes) = 1
      ]_vars

\* an N5232A was programmed with one of two segments disabled
C4_Witness ==
    /\ IsN5232A(model)
    /\ Len(segments) = 2
    /\ NumDisabled(segments) = 1
    /\ \E i \in DOMAIN log :
        /\ IsSegmentWrite(log[i])
        /\ WriteCount(log[i]) = 1
        /\ WriteTable(log[i]) = ModelTable(segments)

\* C5: every Sample returned has N slots in each of bw, f0, q and il; the
\* slot of a disabled segment is empty, the slot of an enabled segment holds
\* that segment's result.
C5_SampleSlots ==
    (pc = "done" /\ result = "Sample")
        => /\ \A f \in {"bw", "f0", "q", "il"} :
                /\ Len(data[f]) = Len(segments)
                /\ \A i \in DOMAIN segments :
                    segments[i].enabled <=> data[f][i] /= None
           /\ ~cfg.use_markers
                => \A i \in DOMAIN segments :
                    segments[i].enabled
                        => /\ data.bw[i] = Some(obs.fits[i].bw)
                           /\ data.f0[i] = Some(obs.fits[i].f0)
                           /\ data.q[i] = Some(obs.fits[i].q)
                           /\ data.il[i] = Some(obs.fits[i].il)

\* the scenario of C6 at the end of its cycle: one enabled segment TM010
\* (f0 2,500,700 kHz, span 1,000 kHz) in its first cycle, trackFrequency
\* only, raw-sweep mode, a fit of center f0+300 kHz and bandwidth 100 kHz
C6_Scenario ==
    /\ config.segments = <<SegTM010>>
    /\ ~cfg.use_markers
    /\ cfg.track_freq /\ ~cfg.track_span /\ cfg.track_enabled
    /\ segments[1].enabled
    /\ ticks = 1
    /\ pc = "done"
    /\ obs.fits /= <<>>
    /\ obs.fits[1].ok
    /\ obs.fits[1].f0 = 2500700 + 300
    /\ obs.fits[1].bw = 100

SampleSegmentWrites == SelectSeq(SampleCommands(log), IsSegmentWrite)

\* C6 as stated: in the scenario the drift check trips, the segment's f0
\* becomes the fitted center and the sweep is reprogrammed.
C6_DriftTrips ==
    C6_Scenario
        => /\ obs.trips /= <<>>
           /\ obs.trips[1][1][1]
           /\ segments[1].f0 = 2500700 + 300
           /\ SampleSegmentWrites /= <<>>

\* C6 amended: in the scenario ferr = 300 + 50 = 350 kHz does not exceed
\* 1000 x 0.8 x 0.5 = 400 kHz: the drift check does not trip, f0 and span
\* stay as they were, the sweep is not reprogrammed and the Sample is returned.
C6_DriftDoesNotTrip ==
    C6_Scenario
        => /\ obs.trips /= <<>>
           /\ ~obs.trips[1][1][1]
           /\ segments[1].f0 = 2500700
           /\ segments[1].span = 1000
           /\ SampleSegmentWrites = <<>>
           /\ result = "Sample"

C6_Witness ==
    /\ C6_Scenario
    /\ result = "Sample"
    /\ data.f0 = <<Some(2501000)>>

\* the bandwidth factor in force: the override if one is set, else nominal
EffectiveFactor ==
    IF cfg.bw_factor_override = None THEN cfg.bw_factor
    ELSE cfg.bw_factor_override[1]

\* the tracking step runs on the segments
TrackingStep == pc = "track" /\ pc' = "done" /\ Tracking(cfg)

\* C7: the span check of an enabled segment trips exactly when
\* (bw x factor)/span > 1.3 or span/(bw x factor) > 1.3; with trackSpan,
\* span 1,000 kHz, fitted bandwidth 5 kHz and factor 8 it trips and the
\* segment's span becomes 40 kHz.
C7_SpanCheck ==
    [][ TrackingStep
        => \A i \in DOMAIN segments :
            segments[i].enabled
            => LET span == segments[i].span
                   fitted == data.bw[i][1] * EffectiveFactor
               IN  /\ obs'.trips[i][1][2]
                        <=> (10 * fitted > 13 * span \/ 10 * span > 13 * fitted)
                   /\ ( /\ cfg.track_span
                        /\ span = 1000
                        /\ data.bw[i][1] = 5
                        /\ EffectiveFactor = 8 )
                        => /\ obs'.trips[i][1][2]
                           /\ segments'[i].span = 40
      ]_vars

C7_Witness ==
    /\ config.segments = <<SegTM010>>
    /\ ~cfg.use_markers
    /\ cfg.track_span /\ cfg.track_enabled
    /\ ticks = 1
    /\ pc = "done"
    /\ obs.factor = Some(8)
    /\ obs.trips /= <<>>
    /\ obs.trips[1] /= None
    /\ obs.trips[1][1][2]
    /\ data.bw = <<Some(5)>>
    /\ segments[1].span = 40

\* C8: in raw-sweep mode with tracking enabled and trackFrequency set, a
\* segment whose fit fails has its f0 moved by +span on a positive slope and
\* by -span on a negative one, its span unchanged; every other segment keeps
\* its f0 and span, and the cycle ends there.
C8_Nudge ==
    [][ ( /\ pc = "acquire"
          /\ ~cfg.use_markers
          /\ cfg.track_enabled /\ cfg.track_freq
          /\ obs'.fits /= <<>>
          /\ \E i \in DOMAIN segments : segments[i].enabled /\ ~obs'.fits[i].ok )
        => /\ pc' = "done"
           /\ \A i \in DOMAIN segments :
                IF segments[i].enabled /\ ~obs'.fits[i].ok
                THEN /\ obs'.fits[i].slope > 0
                        => segments'[i].f0 = segments[i].f0 + segments[i].span
                     /\ obs'.fits[i].slope < 0
                        => segments'[i].f0 = segments[i].f0 - segments[i].span
                     /\ segments'[i].span = segments[i].span
                ELSE /\ segments'[i].f0 = segments[i].f0
                     /\ segments'[i].span = segments[i].span
      ]_vars

\* of two enabled segments the first lost track on a rising slope
C8_Witness ==
    /\ Len(segments) = 2
    /\ ~cfg.use_markers
    /\ cfg.track_enabled /\ cfg.track_freq
    /\ ticks = 1
    /\ pc = "done"
    /\ obs.fits /= <<>>
    /\ segments[1].enabled /\ segments[2].enabled
    /\ ~obs.fits[1].ok /\ obs.fits[1].slope > 0
    /\ obs.fits[2].ok
    /\ segments[1].f0 = segments[1].f0_default + segments[1].span
    /\ segments[2].f0 = segments[2].f0_default

\* the factor the requests applied so far ask for
RequestedFactor ==
    IF obs.override /= None THEN obs.override[1] ELSE config.bandwidth_factor

\* C9: the tracking step uses, in the span check and in the new span, the
\* factor of the last SetBandwidthFactorOverride applied, and the configured
\* nominal factor if none was applied or the last one cleared the override.
C9_OverridePrecedence ==
    [][ TrackingStep
        => /\ obs'.factor = Some(RequestedFactor)
           /\ \A i \in DOMAIN segments :
                segments[i].enabled
                => LET span == segments[i].span
                       fitted == data.bw[i][1] * RequestedFactor
                       trip == obs'.trips[i][1]
                   IN  /\ trip[2] <=> (10 * fitted > 13 * span \/ 10 * span > 13 * fitted)
                       /\ (cfg.track_span /\ (trip[2] \/ (trip[1] /\ cfg.track_freq)))
                            => segments'[i].span = fitted
      ]_vars

\* a span was resized with the override 2 although the nominal factor is 8
C9_Witness ==
    /\ pc = "done"
    /\ config.bandwidth_factor = 8
    /\ obs.override = Some(2)
    /\ obs.factor = Some(2)
    /\ cfg.track_span
    /\ \E i \in DOMAIN segments :
        /\ obs.trips[i] /= None
        /\ obs.trips[i][1][2]
        /\ segments[i].span = data.bw[i][1] * 2

\* the segment of the configuration a model segment was made from
ConfigSegment(name) ==
    CHOOSE s \in Range(config.segments) : s.name = name

\* C10: once a ResetTracking request has been applied every segment has the
\* f0 and span the configuration gave it at setup, the enabled flags are as
\* before, and the sweep has been reprogrammed with the restored values.
C10_ResetTracking ==
    obs.applied = "reset_tracking"
        => /\ \A i \in DOMAIN segments :
                /\ segments[i].f0 = ConfigSegment(segments[i].name).f0
                /\ segments[i].span = ConfigSegment(segments[i].name).span
           /\ EnabledFlags(segments) = EnabledFlags(obs.before)
           /\ log /= <<>>
           /\ IsSegmentWrite(log[Len(log)])
           /\ WriteTable(log[Len(log)]) = ModelTable(segments)
           /\ dev.table = log[Len(log)].data

\* the reset moved a segment back while another one is disabled
C10_Witness ==
    /\ obs.applied = "reset_tracking"
    /\ \E i \in DOMAIN segments : obs.before[i].f0 /= segments[i].f0
    /\ \E j \in DOMAIN segments : ~segments[j].enabled

\* the input segments and the segments of the model, field by field
InputOf(seg) ==
    [name |-> seg.name, f0 |-> seg.f0_default, span |-> seg.span_default,
     points |-> seg.points, ifbw |-> seg.ifbw, power |-> seg.power]

ExactlyTheInput ==
    /\ Len(segments) = Len(config.segments)
    /\ {InputOf(segments[i]) : i \in DOMAIN segments} = Range(config.segments)

\* setup() has built the segment list of a map that has all its fields
SetupBuilt == pc /= "new" /\ HasSegmentFields(config)

\* C11 as stated: the segment sequence produced by Setup is in strictly
\* ascending f0 order and contains exactly the input segments.
C11_StrictlyAscending ==
    SetupBuilt
        => /\ \A i \in 1..(Len(segments) - 1) : segments[i].f0 < segments[i + 1].f0
           /\ ExactlyTheInput

\* C11 amended: the segment sequence produced by Setup is in ascending f0
\* order, each f0 greater than or equal to its predecessor's and strictly
\* greater when the input centers are pairwise distinct, and contains exactly
\* the input segments.
C11_Ascending ==
    SetupBuilt
        => /\ \A i \in 1..(Len(segments) - 1) : segments[i].f0 <= segments[i + 1].f0
           /\ (\A i, j \in DOMAIN config.segments :
                    i /= j => config.segments[i].f0 /= config.segments[j].f0)
                => \A i \in 1..(Len(segments) - 1) :
                        segments[i].f0 < segments[i + 1].f0
           /\ ExactlyTheInput

\* three segments given in descending order, two of them at the same center
C11_Witness ==
    /\ pc = "idle"
    /\ Len(config.segments) = 3
    /\ config.segments[1].f0 > config.segments[2].f0
    /\ config.segments[2].f0 = config.segments[3].f0
    /\ segments[1].f0 = segments[2].f0
    /\ segments[2].f0 < segments[3].f0

\* the segment map has every field, and f0, span, points, ifbw above 0
ValidConfig(c) ==
    /\ HasSegmentFields(c)
    /\ \A i \in DOMAIN c.segments :
        /\ c.segments[i].f0 > 0
        /\ c.segments[i].span > 0
        /\ c.segments[i].points > 0
        /\ c.segments[i].ifbw > 0

\* C12: Setup on a configuration with a missing or invalid segment field
\* fails, and no Instrument Link command has been issued.
C12_ConfigurationError ==
    (pc /= "new" /\ ~ValidConfig(config))
        => /\ pc = "failed"
           /\ result = "Raised"
           /\ log = <<>>

\* the running cycle is the first one since the latest setup()
FirstCycleAfterSetup == ticks = obs.since + 1 /\ pc \notin {"new", "idle", "failed"}

\* C13: setup() leaves the staleness cache empty, and the first marker-mode
\* cycle after a setup() whose reads all arrive is not discarded as stale,
\* whatever was read before that setup(): its read becomes the reference.
C13_SetupClearsCache ==
    /\ (pc = "idle" /\ ticks = obs.since) => last_sample = None
    /\ (FirstCycleAfterSetup /\ cfg.use_markers /\ obs.read /= None)
        => /\ pc \in {"track", "done"}
           /\ result /= "None"
           /\ last_sample = obs.read

\* the first cycle after a second setup() reads what the last Sample before
\* that setup() held, and returns it
C13_Witness ==
    /\ FirstCycleAfterSetup
    /\ cfg.use_markers
    /\ obs.prior /= None
    /\ obs.read /= None
    /\ obs.read[1] = Arr(obs.prior[1])
    /\ data.il = obs.prior[1].il
    /\ pc = "done"
    /\ result = "Sample"

\* sample() is past its first lines
InSample == pc \in {"acquire", "track", "done"}

IsTrigger(c) == c.cmd \in {":TRIG:SING", ":INIT:IMM"}

IsMarkerQuery(c) == c.cmd = ":CALC1:MARK:BWID:DATA?"

\* C14 as stated: in marker mode the tick's first commands are the single
\* trigger and the wait for its acknowledgment, and every marker query comes
\* after them.
C14_TriggerBeforeMarkers ==
    (InSample /\ cfg.use_markers)
        => LET sc == SampleCommands(log)
           IN  /\ Len(sc) >= 2
               /\ IsTrigger(sc[1])
               /\ sc[2].cmd = "*OPC?"
               /\ \A i \in DOMAIN sc : IsMarkerQuery(sc[i]) => i > 2

\* C14 amended: in marker mode a tick issues no trigger and waits for no
\* acknowledgment before its marker queries: its first commands are the
\* marker queries of the segments, in segment order.  The trigger and the
\* wait come first in raw-sweep mode only, before the sweep is queried.
C14_MarkersWithoutTrigger ==
    InSample
        => LET sc == SampleCommands(log)
               n == Len(segments)
           IN  IF cfg.use_markers
               THEN /\ pc = "acquire" => sc = <<>>
                    /\ pc /= "acquire" => Len(sc) >= 1
                    /\ pc = "track" => Len(sc) = n
                    /\ \A i \in DOMAIN sc :
                        IF i <= n
                        THEN IsMarkerQuery(sc[i]) /\ sc[i].data = <<i>>
                        ELSE ~IsMarkerQuery(sc[i])
               ELSE /\ Len(sc) >= 1
                    /\ IsTrigger(sc[1])
                    /\ Len(sc) >= 2 => sc[2].cmd = "*OPC?"
                    /\ pc = "acquire" => Len(sc) = 2
                    /\ \A i \in DOMAIN sc : i > 2 => ~IsTrigger(sc[i])

\* the markers of two segments have been read, and nothing else was sent
C14_Witness ==
    /\ cfg.use_markers
    /\ pc = "track"
    /\ Len(segments) = 2
    /\ Len(SampleCommands(log)) = 2
    /\ SampleCommands(log)[2].data = <<2>>

\* C15: after the tracking step a segment's f0 is the fitted center exactly
\* when its drift check tripped and trackFrequency is set, and its span is
\* fittedBw x effective factor exactly when its span check tripped and
\* trackSpan is set; otherwise the field is what it was before the step.
C15_IndependentChecks ==
    (pc = "done" /\ obs.trips /= <<>>)
        => \A i \in DOMAIN segments :
            obs.trips[i] /= None
            => LET trip == obs.trips[i][1]
               IN  /\ segments[i].f0 =
                        IF trip[1] /\ cfg.track_freq THEN data.f0[i][1]
                        ELSE obs.start[i].f0
                   /\ segments[i].span =
                        IF trip[2] /\ cfg.track_span
                        THEN data.bw[i][1] * EffectiveFactor
                        ELSE obs.start[i].span

\* tracking is switched off, or neither gate is set
TrackingOff == ~cfg.track_enabled \/ (~cfg.track_freq /\ ~cfg.track_span)

Geometry(segs) == [i \in DOMAIN segs |-> <<segs[i].f0, segs[i].span>>]

\* the fit of an enabled segment failed in the running cycle
FitFailed ==
    /\ obs.fits /= <<>>
    /\ \E i \in DOMAIN segments : segments[i].enabled /\ ~obs.fits[i].ok

\* C16: while tracking is off (trackingEnabled false, or neither gate set)
\* sample() changes no segment's f0 or span and writes no segment list,
\* whether its fit or read succeeds or fails; a failed fit then gives no result.
C16_TrackingOff ==
    (InSample /\ TrackingOff)
        => /\ Geometry(segments) = Geometry(obs.start)
           /\ SampleSegmentWrites = <<>>
           /\ (pc = "done" /\ FitFailed) => result = "None"

\* a fit failed while trackFrequency is set but tracking is switched off
C16_Witness ==
    /\ pc = "done"
    /\ ~cfg.use_markers
    /\ cfg.track_freq
    /\ ~cfg.track_enabled
    /\ FitFailed
    /\ result = "None"

\* C17: in raw-sweep mode a cycle in which the fit of an enabled segment
\* failed returns no Sample and runs no tracking step: the segments whose fit
\* succeeded keep their f0 and span.  With tracking enabled and
\* trackFrequency set the cycle writes the segment list once, as its last
\* command, carrying the nudged centers (a cycle the Link fails in writes it
\* at most once); otherwise it writes none.
C17_LostTrack ==
    (pc = "done" /\ ~cfg.use_markers /\ FitFailed)
        => /\ result /= "Sample"
           /\ obs.trips = <<>>
           /\ \A i \in DOMAIN segments :
                (segments[i].enabled /\ obs.fits[i].ok)
                    => /\ segments[i].f0 = obs.start[i].f0
                       /\ segments[i].span = obs.start[i].span
           /\ IF cfg.track_enabled /\ cfg.track_freq
              THEN /\ Len(SampleSegmentWrites) <= 1
                   /\ result = "None"
                        => /\ Len(SampleSegmentWrites) = 1
                           /\ IsSegmentWrite(log[Len(log)])
                           /\ WriteTable(log[Len(log)]) = ModelTable(segments)
                           /\ dev.table = log[Len(log)].data
                           /\ \A i \in DOMAIN segments :
                                (segments[i].enabled /\ ~obs.fits[i].ok)
                                    => segments[i].f0 /= obs.start[i].f0
              ELSE SampleSegmentWrites = <<>>

\* of two enabled segments one lost track: no Sample, one reprogramming
C17_Witness ==
    /\ pc = "done"
    /\ ~cfg.use_markers
    /\ cfg.track_enabled /\ cfg.track_freq
    /\ Len(segments) = 2
    /\ obs.fits /= <<>>
    /\ segments[1].enabled /\ obs.fits[1].ok
    /\ segments[2].enabled /\ ~obs.fits[2].ok
    /\ result = "None"
    /\ Len(SampleSegmentWrites) = 1

\* C18: a cycle that returns its Sample has written the segment list once,
\* after the acquisition, if its tracking step changed the f0 or span of a
\* segment, and has written no segment list if it changed none.
C18_WriteIffUpdated ==
    (pc = "done" /\ result = "Sample")
        => IF Geometry(segments) /= Geometry(obs.start)
           THEN /\ Len(SampleSegmentWrites) = 1
                /\ WriteTable(SampleSegmentWrites[1]) = ModelTable(segments)
           ELSE SampleSegmentWrites = <<>>

\* the names of the commands sample() issued after its segment-list write
AfterSegmentWrite ==
    LET sc == SampleCommands(log)
        k == CHOOSE i \in DOMAIN sc : IsSegmentWrite(sc[i])
    IN  [j \in 1..(Len(sc) - k) |-> sc[k + j].cmd]

IsTriggerSource(c) ==
    c.cmd \in {":TRIG:SOUR MAN", ":TRIG:SOUR BUS", ":TRIG:SOUR INT"}

\* C19: a marker-mode cycle that reprogrammed the sweep and returns its
\* Sample has then issued: trigger source to manual/bus, trigger, wait for
\* operation-complete, trigger source to internal, and nothing else; a
\* marker-mode cycle that did not reprogram touched neither the trigger nor
\* its source, and after every marker-mode cycle that returns the trigger
\* source is internal.  A raw-sweep cycle that reprogrammed issued nothing
\* after the write, and no raw-sweep cycle changes the trigger source.
C19_ForcedTrigger ==
    (pc = "done" /\ result \in {"Sample", "None"})
        => LET sc == SampleCommands(log)
           IN  IF cfg.use_markers
               THEN /\ IF SampleSegmentWrites /= <<>>
                       THEN AfterSegmentWrite \in
                                { <<":TRIG:SOUR BUS", ":TRIG:SING", "*OPC?",
                                    ":TRIG:SOUR INT">>,
                                  <<":TRIG:SOUR MAN", ":INIT:IMM", "*OPC?",
                                    ":TRIG:SOUR INT">> }
                       ELSE \A i \in DOMAIN sc :
                                ~IsTriggerSource(sc[i]) /\ ~IsTrigger(sc[i])
                    /\ dev.trig = "INT"
               ELSE /\ SampleSegmentWrites /= <<>> => AfterSegmentWrite = <<>>
                    /\ \A i \in DOMAIN sc : ~IsTriggerSource(sc[i])
                    /\ dev.trig = IF IsN5232A(model) THEN "MAN" ELSE "BUS"

\* a marker-mode cycle retracked a segment and returns its Sample
C19_Witness ==
    /\ pc = "done"
    /\ result = "Sample"
    /\ cfg.use_markers
    /\ SampleSegmentWrites /= <<>>
    /\ Len(AfterSegmentWrite) = 4
    /\ dev.trig = "INT"

\* the points of a sequence of segments or table rows, added up
RECURSIVE SumPoints(_)
SumPoints(rows) ==
    IF rows = <<>> THEN 0 ELSE Head(rows).points + SumPoints(Tail(rows))

\* the segment table the instrument holds, decoded
DeviceTable ==
    WriteTable([cmd |-> IF IsN5232A(model) THEN ":SENS1:SEGM:LIST SSTOP"
                        ELSE ":SENS1:SEGM:DATA",
                data |-> dev.table])

\* the place of segment i among the enabled segments
EnabledRank(segs, i) == Cardinality({j \in 1..i : segs[j].enabled})

\* C20: in raw-sweep mode the slice fitted for an enabled segment starts at
\* the sum of the points of the enabled segments before it and has the
\* segment's points as length; freq and ampl are cut alike; the slices of two
\* enabled segments do not overlap, and the slice of the k-th enabled segment
\* lies where the k-th row of the table written to the instrument puts it.
C20_Slices ==
    (~cfg.use_markers /\ pc = "track")
        => /\ Len(data.freq) = Len(segments)
           /\ data.ampl = data.freq
           /\ \A i \in DOMAIN segments :
                IF segments[i].enabled
                THEN LET off == SumPoints(SelectSeq(SubSeq(segments, 1, i - 1),
                                                    LAMBDA x : x.enabled))
                         k == EnabledRank(segments, i)
                     IN  /\ data.freq[i] = Some(<<off, off + segments[i].points>>)
                         /\ k <= Len(DeviceTable)
                         /\ DeviceTable[k].f0 = segments[i].f0
                         /\ DeviceTable[k].points = segments[i].points
                         /\ off = SumPoints(SubSeq(DeviceTable, 1, k - 1))
                ELSE data.freq[i] = None
           /\ \A i, j \in DOMAIN segments :
                (i < j /\ segments[i].enabled /\ segments[j].enabled)
                    => data.freq[i][1][2] <= data.freq[j][1][1]

\* the first of two segments is disabled: the second one's slice starts at 0
C20_Witness ==
    /\ ~cfg.use_markers
    /\ pc = "track"
    /\ Len(segments) = 2
    /\ ~segments[1].enabled
    /\ segments[2].enabled
    /\ data.freq = <<None, Some(<<0, segments[2].points>>)>>

\* the session is between steps that may leave the instrument behind the
\* model: setup has completed and no exception has ended the running cycle
Settled ==
    \/ pc \in {"idle", "drain", "acquire", "track"}
    \/ pc = "done" /\ result /= "Raised"

\* C21: after setup, after every cycle that returns a Sample or no result,
\* and after every applied set_segment_enabled or reset_tracking, the segment
\* table the instrument holds is the model's enabled segments with their
\* current f0, span, points, ifbw and power; the same holds whenever an
\* acquisition begins or is under way, so no change of f0, span or enabled
\* reaches an acquisition without its segment-list write.
C21_DeviceMatchesModel ==
    Settled => DeviceTable = ModelTable(segments)

\* a cycle has retracked a segment away from its default window and returned
C21_Witness ==
    /\ pc = "idle"
    /\ ticks >= 1
    /\ \E i \in DOMAIN segments :
            /\ segments[i].enabled
            /\ segments[i].f0 /= segments[i].f0_default
            /\ segments[i].span /= segments[i].span_default
    /\ DeviceTable = ModelTable(segments)

\* the tracking step of the running cycle has run with both gates set, and
\* segment i, which the last accepted acquisition before it retracked to a
\* fit (f0, bw), has been fitted to the same (f0, bw) under the same factor
SameFitAgain(i) ==
    /\ pc = "done"
    /\ obs.trips /= <<>>
    /\ cfg.track_freq /\ cfg.track_span
    /\ 4 * EffectiveFactor >= 5
    /\ obs.was /= <<>>
    /\ obs.was[i] /= None
    /\ obs.start[i].enabled
    /\ data.f0[i] = Some(obs.was[i][1].f0)
    /\ data.bw[i] = Some(obs.was[i][1].bw)
    /\ obs.was[i][1].factor = EffectiveFactor

\* the cycle has tripped neither check for segment i, has left its window
\* alone and, unless another segment was retracked, has not written the sweep
AtFixedPoint(i) ==
    /\ obs.trips[i] = Some(<<FALSE, FALSE>>)
    /\ segments[i].f0 = obs.start[i].f0
    /\ segments[i].span = obs.start[i].span
    /\ (\A j \in DOMAIN segments : obs.trips[j] \in {None, Some(<<FALSE, FALSE>>)})
            => SampleSegmentWrites = <<>>

\* C22 as stated: with tracking enabled, both gates set and a bandwidth
\* factor of at least 1.25, if a cycle retracks a segment to a fit (f0, bw)
\* and the next accepted acquisition returns the same (f0, bw) for it under
\* the same factor, that cycle trips neither check for the segment, leaves
\* its f0 and span unchanged and does not reprogram the sweep on its account.
C22_FixedPoint ==
    \A i \in DOMAIN segments : SameFitAgain(i) => AtFixedPoint(i)

\* C22 amended: the same, provided that between the two acquisitions no
\* reset_tracking was applied and no lost-track nudge moved the segment.
C22_FixedPointUndisturbed ==
    \A i \in DOMAIN segments :
        (SameFitAgain(i) /\ obs.was[i][1].intact) => AtFixedPoint(i)

\* the second cycle fits the resonance the first cycle retracked to
C22_Witness ==
    /\ ticks = 2
    /\ result = "Sample"
    /\ SameFitAgain(1)
    /\ obs.was[1][1].intact
    /\ obs.was[1][1].bw = 900
    /\ segments[1].span = 900 * EffectiveFactor
    /\ SampleSegmentWrites = <<>>

\* a command that configures or queries markers
IsMarkerCommand(c) ==
    c.cmd \in {":CALC1:MARK:BWID ON", ":CALC1:MARK:FUNC:MULT:TYPE PEAK",
               ":CALC1:MARK:FUNC:EXEC", ":CALC1:MARK:FUNC:MULT:TRAC ON",
               ":CALC1:MARK:BWID:DATA?"}

\* C23: once the identity read by setup() reports model N5232A the session
\* runs in raw-sweep mode whatever useMarkers the configuration has: setup
\* sets the trigger source to manual and sends no marker command, every
\* cycle starts with the immediate-initiate command and its wait and takes
\* its results from the local fit, and no marker query is ever issued.
C23_N5232ARawSweep ==
    IsN5232A(model)
        => /\ ~cfg.use_markers
           /\ \A k \in DOMAIN log :
                /\ ~IsMarkerCommand(log[k])
                /\ log[k].cmd \notin {":TRIG:SOUR BUS", ":TRIG:SOUR INT", ":TRIG:SING"}
           /\ (pc = "idle" /\ log /= <<>>)
                => \E k \in DOMAIN log :
                        log[k].by = "setup" /\ log[k].cmd = ":TRIG:SOUR MAN"
           /\ pc \in {"idle", "drain", "acquire", "track", "done"} => dev.trig = "MAN"
           /\ (InSample /\ SampleCommands(log) /= <<>>)
                => SampleCommands(log)[1].cmd = ":INIT:IMM"
           /\ pc \in {"acquire", "track"}
                => /\ Len(SampleCommands(log)) >= 2
                   /\ SampleCommands(log)[2].cmd = "*OPC?"
           /\ pc = "track"
                => /\ obs.read = None
                   /\ obs.fits /= <<>>
                   /\ \A i \in DOMAIN segments :
                        segments[i].enabled => data.f0[i] = Some(obs.fits[i].f0)

\* an N5232A configured with useMarkers has triggered, swept and fitted
C23_Witness ==
    /\ IsN5232A(model)
    /\ config.use_markers
    /\ pc = "track"
    /\ SampleCommands(log)[1].cmd = ":INIT:IMM"
    /\ obs.fits /= <<>>
    /\ obs.fits[1].ok

\* what identifies a segment and what no operation may change of it
Identity(seg) ==
    [name |-> seg.name, f0_default |-> seg.f0_default,
     span_default |-> seg.span_default, points |-> seg.points,
     ifbw |-> seg.ifbw, power |-> seg.power]

Identities(segs) == [i \in DOMAIN segs |-> Identity(segs[i])]

\* C24: through any sequence of cycles and applied requests after a setup
\* the segment list keeps the length and the order of segment identities
\* that setup established, also when tracking or nudging makes f0 values
\* cross, and each segment's f0_default, span_default, points, ifbw and
\* power stay as constructed.
C24_ListStable ==
    (pc /= "new" /\ HasSegmentFields(config))
        => Identities(segments) = Identities(VNAConfigSegments(config))

\* a nudge has taken the first segment's f0 above the second one's
C24_Witness ==
    /\ pc = "idle"
    /\ ticks >= 1
    /\ Len(segments) = 2
    /\ segments[1].f0 > segments[2].f0
    /\ segments[1].f0_default < segments[2].f0_default
    /\ segments[1].name = "TM110"

====
